---- MODULE Spec2Model ----
(***************************************************************************)
(* Model of the exercise-tracker server (server.js): a JSON document of    *)
(* sections, each an array of {name} exercises, kept in one backing file   *)
(* and changed by the read-modify-write handlers of the REST API.          *)
(*                                                                         *)
(* A string is the sequence of its UTF-16 code units (integers), so that    *)
(* trim(), toLowerCase() and decodeURIComponent() are computed unit by     *)
(* unit.  A JavaScript object is the sequence of its own properties in     *)
(* Object.keys order.                                                      *)
(***************************************************************************)
EXTENDS Integers, Sequences, FiniteSets, TLC

\* ------------------------------------------------------------------ bounds

\* Number of requests that arrive in one behaviour of Spec and of SpecBoot.
MaxOps == 2

\* Number of requests that arrive in one behaviour of SpecConc.
MaxConcOps == 2

\* -------------------------------------------------------------------- data
\* Every record of the model is built by one of these constructors.  Each
\* lists its fields in the order in which the field names first occur in
\* this module, which is the order TLC keeps them in, so that no record is
\* ever reordered once it is built.

\* An exercise, { name }.
Exercise(name) == [name |-> name]

\* One own property of a document: a section name and its exercises.
Property(key, value) == [key |-> key, value |-> value]

\* The backing file: absent, or its text, which is not JSON ("invalid"), a
\* JSON array of exercises, or a JSON object whose members are in the order
\* of the text.
Absent == [t |-> "absent"]
Invalid == [t |-> "invalid"]
ArrayText(v) == [t |-> "array", v |-> v]
ObjectText(members) == [t |-> "object", members |-> members]

\* The file once a call of fs.writeFile has opened and truncated it: no
\* bytes.
Empty == [t |-> "empty"]

\* A text that is the JSON text of an object followed by the bytes rest: a
\* shorter document written over the start of a longer one, or what a read
\* returned of it.
Torn(members, rest) == [t |-> "torn", members |-> members, rest |-> rest]

\* The value of a property lookup obj[k].
OwnValue(v) == [t |-> "array", v |-> v]
Inherited == [t |-> "inherited"]
Undefined == [t |-> "undefined"]

\* An HTTP response.
Response(status, error, body) ==
  [status |-> status, error |-> error, body |-> body]

\* What a handler has decided: its response and, when write is TRUE, the
\* document it passes to fs.writeFile.
Outcome(res, write, sections) ==
  [res |-> res, write |-> write, sections |-> sections]

\* A request: the names it carries and the operation.
Request(op, name, section) == [name |-> name, op |-> op, section |-> section]

\* What a handler holds of the file before its fs.readFile has read it and
\* after it has used what was read.
Unread == [t |-> "unread"]

\* What a handler's fs.readFile holds once its fstat has returned: the size
\* of the file.
Sized(size) == [t |-> "sized", size |-> size]

\* A handler's position and locals.  pc is "idle", "reading" (fs.readFile
\* called), "readopen" (fs.readFile has opened the file), "sized" (its fstat
\* has returned), "more" (the size was 0, a read has returned bytes and the
\* next read is to come), "read" (the file has been read, the await not yet
\* resumed),
\* "writing" (fs.writeFile called), "opened" (fs.writeFile has opened and
\* truncated the file), "written" (it has written the text, the await not
\* yet resumed) or "done" (response sent).  got is what fs.readFile read,
\* out what the handler has decided; readAt is the number of texts written
\* to the file when the handler read it, wroteAt the number of its own.
Client(req, got, out, pc, readAt, wroteAt) ==
  [req |-> req, got |-> got, out |-> out, pc |-> pc,
   readAt |-> readAt, wroteAt |-> wroteAt]

\* ----------------------------------------------------------------- strings

\* The code units String.prototype.trim removes: WhiteSpace and
\* LineTerminator of ECMAScript (TAB, LF, VT, FF, CR, SP, NBSP, U+1680,
\* U+2000..U+200A, LS, PS, U+202F, U+205F, U+3000, BOM).
WhiteSpace ==
  {9, 10, 11, 12, 13, 32, 160, 5760} \cup (8192..8202)
    \cup {8232, 8233, 8239, 8287, 12288, 65279}

RECURSIVE trimStart(_)
trimStart(s) ==
  IF s # <<>> /\ Head(s) \in WhiteSpace THEN trimStart(Tail(s)) ELSE s

RECURSIVE trimEnd(_)
trimEnd(s) ==
  IF s # <<>> /\ s[Len(s)] \in WhiteSpace
    THEN trimEnd(SubSeq(s, 1, Len(s) - 1))
    ELSE s

\* name.trim()
trim(s) == trimEnd(trimStart(s))

\* The code units whose lower case the model knows: Basic Latin, Latin-1
\* Supplement and the white space.  Names with other code units are outside
\* the model; lowerChar has no value for them.
CasedAlphabet == (0..255) \cup WhiteSpace

\* A-Z and the capitals U+00C0..U+00DE (not the sign U+00D7) are 32 below
\* their lower case; every other unit of the alphabet is its own.
lowerChar(c) ==
  IF c \in 65..90 \/ (c \in 192..222 /\ c # 215) THEN c + 32
  ELSE IF c \in CasedAlphabet THEN c
  ELSE CHOOSE d \in {} : TRUE

\* name.toLowerCase()
RECURSIVE toLowerCase(_)
toLowerCase(s) ==
  IF s = <<>> THEN <<>> ELSE <<lowerChar(Head(s))>> \o toLowerCase(Tail(s))

\* !name, for a string: only the empty string is falsy.
Falsy(s) == s = <<>>

\* -------------------------------------------------- JavaScript object keys

\* The digits "0".."9" are the code units 48..57.
IsDigit(c) == c \in 48..57
DigitVal(c) == c - 48

\* 2^32 - 2, the largest array index, digit by digit.
MaxArrayIndex == <<52, 50, 57, 52, 57, 54, 55, 50, 57, 52>>

RECURSIVE LexLess(_, _)
LexLess(a, b) ==
  IF a = <<>> \/ b = <<>> THEN FALSE
  ELSE IF DigitVal(Head(a)) # DigitVal(Head(b))
    THEN DigitVal(Head(a)) < DigitVal(Head(b))
    ELSE LexLess(Tail(a), Tail(b))

\* Numeric order of two canonical numeric strings.
NumLess(a, b) == Len(a) < Len(b) \/ (Len(a) = Len(b) /\ LexLess(a, b))

\* An integer-like key ("0", "7", "10"; not "", "01", "1a"): such keys come
\* first, in ascending numeric order, in Object.keys and JSON.stringify.
IsArrayIndex(k) ==
  /\ Len(k) >= 1
  /\ \A i \in 1..Len(k) : IsDigit(k[i])
  /\ (Len(k) = 1 \/ k[1] # 48)
  /\ (k = MaxArrayIndex \/ NumLess(k, MaxArrayIndex))

\* The properties every parsed object inherits from Object.prototype.
ObjectPrototypeProps ==
  {
    \* constructor
    <<99, 111, 110, 115, 116, 114, 117, 99, 116, 111, 114>>,
    \* __defineGetter__
    <<95, 95, 100, 101, 102, 105, 110, 101, 71, 101, 116, 116, 101, 114, 95, 95>>,
    \* __defineSetter__
    <<95, 95, 100, 101, 102, 105, 110, 101, 83, 101, 116, 116, 101, 114, 95, 95>>,
    \* hasOwnProperty
    <<104, 97, 115, 79, 119, 110, 80, 114, 111, 112, 101, 114, 116, 121>>,
    \* __lookupGetter__
    <<95, 95, 108, 111, 111, 107, 117, 112, 71, 101, 116, 116, 101, 114, 95, 95>>,
    \* __lookupSetter__
    <<95, 95, 108, 111, 111, 107, 117, 112, 83, 101, 116, 116, 101, 114, 95, 95>>,
    \* isPrototypeOf
    <<105, 115, 80, 114, 111, 116, 111, 116, 121, 112, 101, 79, 102>>,
    \* propertyIsEnumerable
    <<112, 114, 111, 112, 101, 114, 116, 121, 73, 115, 69, 110, 117, 109, 101, 114, 97, 98, 108, 101>>,
    \* toString
    <<116, 111, 83, 116, 114, 105, 110, 103>>,
    \* valueOf
    <<118, 97, 108, 117, 101, 79, 102>>,
    \* __proto__
    <<95, 95, 112, 114, 111, 116, 111, 95, 95>>,
    \* toLocaleString
    <<116, 111, 76, 111, 99, 97, 108, 101, 83, 116, 114, 105, 110, 103>> }

\* Object.keys(obj)
RECURSIVE ObjectKeys(_)
ObjectKeys(obj) ==
  IF obj = <<>> THEN <<>> ELSE <<Head(obj).key>> \o ObjectKeys(Tail(obj))

HasOwn(obj, k) == \E i \in 1..Len(obj) : obj[i].key = k

OwnIndex(obj, k) == CHOOSE i \in 1..Len(obj) : obj[i].key = k

\* obj[k]: the own property, else the inherited one, else undefined.
Get(obj, k) ==
  IF HasOwn(obj, k) THEN OwnValue(obj[OwnIndex(obj, k)].value)
  ELSE IF k \in ObjectPrototypeProps THEN Inherited
  ELSE Undefined

\* !obj[k] is false for an array (even an empty one) and for an inherited
\* function or object.
Truthy(x) == x.t # "undefined"

\* Where a new key goes among the own keys: an integer-like key before the
\* first larger integer-like key or the first string key, a string key last.
InsertAt(obj, k) ==
  IF IsArrayIndex(k)
    THEN Cardinality({i \in 1..Len(obj) :
                        IsArrayIndex(obj[i].key) /\ NumLess(obj[i].key, k)}) + 1
    ELSE Len(obj) + 1

\* obj[k] = v
Set(obj, k, v) ==
  IF HasOwn(obj, k)
    THEN [obj EXCEPT ![OwnIndex(obj, k)].value = v]
    ELSE LET p == InsertAt(obj, k)
         IN SubSeq(obj, 1, p - 1) \o << Property(k, v) >>
              \o SubSeq(obj, p, Len(obj))

\* delete obj[k]: removes an own property; anything else is a no-op.
Delete(obj, k) ==
  IF HasOwn(obj, k)
    THEN LET p == OwnIndex(obj, k)
         IN SubSeq(obj, 1, p - 1) \o SubSeq(obj, p + 1, Len(obj))
    ELSE obj

\* -------------------------------------------------------------------- JSON

\* JSON.parse of an object: members are defined in text order, a repeated
\* key keeps its first place and its last value.
RECURSIVE ParseMembers(_, _)
ParseMembers(obj, members) ==
  IF members = <<>> THEN obj
  ELSE ParseMembers(Set(obj, Head(members).key, Head(members).value),
                    Tail(members))

\* JSON.stringify(obj, null, 2): own properties in Object.keys order.
Stringify(obj) == ObjectText(obj)

\* Bytes one code unit takes in the UTF-8 text of a JSON string: the quote
\* and the backslash are escaped in two, the controls in two (\b \t \n \f
\* \r) or six (\u00XX), a surrogate with no partner in six (\uDXXX).
UnitLength(c) ==
  IF c \in {34, 92} \/ c \in {8, 9, 10, 12, 13} THEN 2
  ELSE IF c < 32 \/ c \in 55296..57343 THEN 6
  ELSE IF c < 128 THEN 1
  ELSE IF c < 2048 THEN 2
  ELSE 3

\* Bytes of the characters of a string between its quotes; a surrogate
\* pair is one character of four bytes.
RECURSIVE EscapedLength(_)
EscapedLength(s) ==
  IF s = <<>> THEN 0
  ELSE IF /\ Len(s) >= 2
          /\ s[1] \in 55296..56319
          /\ s[2] \in 56320..57343
    THEN 4 + EscapedLength(Tail(Tail(s)))
  ELSE UnitLength(Head(s)) + EscapedLength(Tail(s))

QuotedLength(s) == 2 + EscapedLength(s)

\* Bytes of the exercises of one section, with their line breaks and
\* indentation: each is 26 bytes around its quoted name, a comma and a line
\* break between two.
RECURSIVE ItemsLength(_)
ItemsLength(list) ==
  IF list = <<>> THEN 0
  ELSE 26 + QuotedLength(Head(list).name)
         + (IF Len(list) > 1 THEN 2 ELSE 0) + ItemsLength(Tail(list))

\* Bytes of an array of exercises: "[]", or the items between "[\n" and
\* "\n  ]".
ArrayLength(list) == IF list = <<>> THEN 2 ELSE 6 + ItemsLength(list)

\* Bytes of the members of an object: two spaces, the quoted key, a colon, a
\* space and the array; a comma and a line break between two.
RECURSIVE MembersLength(_)
MembersLength(obj) ==
  IF obj = <<>> THEN 0
  ELSE 4 + QuotedLength(Head(obj).key) + ArrayLength(Head(obj).value)
         + (IF Len(obj) > 1 THEN 2 ELSE 0) + MembersLength(Tail(obj))

\* Number of bytes of JSON.stringify(obj, null, 2) in UTF-8: "{}", or the
\* members between "{\n" and "\n}".
TextLength(obj) == IF obj = <<>> THEN 2 ELSE 4 + MembersLength(obj)

\* The name of the default section, 'General'.
General == <<71, 101, 110, 101, 114, 97, 108>>

\* A hexadecimal digit of an escape, in lower case.
Hex(d) == IF d < 10 THEN 48 + d ELSE 87 + d

\* The UTF-8 bytes of one code unit in a JSON string.
UnitText(c) ==
  IF c = 34 THEN <<92, 34>>
  ELSE IF c = 92 THEN <<92, 92>>
  ELSE IF c = 8 THEN <<92, 98>>
  ELSE IF c = 9 THEN <<92, 116>>
  ELSE IF c = 10 THEN <<92, 110>>
  ELSE IF c = 12 THEN <<92, 102>>
  ELSE IF c = 13 THEN <<92, 114>>
  ELSE IF c < 32 \/ c \in 55296..57343
    THEN <<92, 117, Hex(c \div 4096), Hex((c \div 256) % 16),
           Hex((c \div 16) % 16), Hex(c % 16)>>
  ELSE IF c < 128 THEN <<c>>
  ELSE IF c < 2048 THEN <<192 + (c \div 64), 128 + (c % 64)>>
  ELSE <<224 + (c \div 4096), 128 + ((c \div 64) % 64), 128 + (c % 64)>>

\* The four UTF-8 bytes of the character of a surrogate pair.
PairText(hi, lo) ==
  LET cp == 65536 + (hi - 55296) * 1024 + (lo - 56320)
  IN <<240 + (cp \div 262144), 128 + ((cp \div 4096) % 64),
       128 + ((cp \div 64) % 64), 128 + (cp % 64)>>

RECURSIVE EscapedText(_)
EscapedText(s) ==
  IF s = <<>> THEN <<>>
  ELSE IF /\ Len(s) >= 2
          /\ s[1] \in 55296..56319
          /\ s[2] \in 56320..57343
    THEN PairText(s[1], s[2]) \o EscapedText(Tail(Tail(s)))
  ELSE UnitText(Head(s)) \o EscapedText(Tail(s))

QuotedText(s) == <<34>> \o EscapedText(s) \o <<34>>

\* n spaces.
Indent(n) == [i \in 1..n |-> 32]

\* The exercises of one section, each '{', '"name": ' and the name, '}' on
\* lines of their own, indented by 4 and 6.
RECURSIVE ItemsText(_)
ItemsText(list) ==
  IF list = <<>> THEN <<>>
  ELSE Indent(4) \o <<123, 10>> \o Indent(6)
         \o <<34, 110, 97, 109, 101, 34, 58, 32>>
         \o QuotedText(Head(list).name)
         \o <<10>> \o Indent(4) \o <<125>>
         \o (IF Len(list) > 1 THEN <<44, 10>> ELSE <<>>)
         \o ItemsText(Tail(list))

ListText(list) ==
  IF list = <<>> THEN <<91, 93>>
  ELSE <<91, 10>> \o ItemsText(list) \o <<10>> \o Indent(2) \o <<93>>

RECURSIVE MembersText(_)
MembersText(obj) ==
  IF obj = <<>> THEN <<>>
  ELSE Indent(2) \o QuotedText(Head(obj).key) \o <<58, 32>>
         \o ListText(Head(obj).value)
         \o (IF Len(obj) > 1 THEN <<44, 10>> ELSE <<>>)
         \o MembersText(Tail(obj))

\* The bytes of JSON.stringify(obj, null, 2) in UTF-8.
Text(obj) ==
  IF obj = <<>> THEN <<123, 125>>
  ELSE <<123, 10>> \o MembersText(obj) \o <<10, 125>>

\* Whether JSON.parse skips all of bytes as white space.
AllWhiteSpace(bytes) == \A i \in 1..Len(bytes) : bytes[i] \in {9, 10, 13, 32}

\* Whether JSON.parse(data) throws: on a text that is not JSON, on the empty
\* text and on a JSON text followed by anything but white space.
ParseThrows(data) ==
  \/ data.t \in {"invalid", "empty"}
  \/ data.t = "torn" /\ ~AllWhiteSpace(data.rest)

\* normalizeData(data), for data that parses.
normalizeData(data) ==
  IF data.t = "array"
    THEN << Property(General, data.v) >>
    ELSE ParseMembers(<<>>, data.members)

\* ---------------------------------------------------------------- handlers

\* A handler that answers an error and writes nothing.
Fail(status, error) == Outcome(Response(status, error, <<>>), FALSE, <<>>)

\* A handler that writes sections and answers 200 with it.
Ok(sections) == Outcome(Response(200, "", sections), TRUE, sections)

\* fs.readFile or JSON.parse throws: the handler's catch answers 500.
ReadThrows(data) == data.t = "absent" \/ ParseThrows(data)

\* hasDuplicate comparing the names as written.
hasDuplicateExact(list, trimmedName) ==
  \E i \in 1..Len(list) : list[i].name = trimmedName

\* sections[s].some(ex => ex.name.toLowerCase() === trimmedName.toLowerCase())
hasDuplicate(list, trimmedName) ==
  \E i \in 1..Len(list) :
    toLowerCase(list[i].name) = toLowerCase(trimmedName)

\* pushExercise with the new array thrown away (concat for push).
pushExerciseDropped(list, trimmedName) == list

\* sections[s].push({ name: trimmedName })
pushExercise(list, trimmedName) == Append(list, Exercise(trimmedName))

\* sections[s].filter(ex => ex.name !== decodedName)
RECURSIVE withoutExercise(_, _)
withoutExercise(list, decodedName) ==
  IF list = <<>> THEN <<>>
  ELSE IF Head(list).name # decodedName
    THEN <<Head(list)>> \o withoutExercise(Tail(list), decodedName)
    ELSE withoutExercise(Tail(list), decodedName)

\* isLastSection with the guard left out.
isLastSectionNever(sections) == FALSE

\* isLastSection with the count off by one.
isLastSectionOffByOne(sections) == Len(ObjectKeys(sections)) = 0

\* Object.keys(sections).length === 1
isLastSection(sections) == Len(ObjectKeys(sections)) = 1

\* trimmedBodyName without the trim.
untrimmedBodyName(name) == name

\* The name a POST handler compares and stores.
trimmedBodyName(name) == trim(name)

\* The value of a hexadecimal digit, -1 for any other code unit.
HexVal(c) ==
  IF c \in 48..57 THEN c - 48
  ELSE IF c \in 65..70 THEN c - 55
  ELSE IF c \in 97..102 THEN c - 87
  ELSE -1

\* Whether s has an escape "%XX" at position i, and the byte it stands for.
HasEscape(s, i) ==
  /\ i + 2 <= Len(s)
  /\ s[i] = 37
  /\ HexVal(s[i + 1]) >= 0
  /\ HexVal(s[i + 2]) >= 0

EscapedByte(s, i) == 16 * HexVal(s[i + 1]) + HexVal(s[i + 2])

\* Number of bytes of the UTF-8 sequence a byte starts, 0 when it starts
\* none.
Utf8Length(b) ==
  IF b < 128 THEN 1
  ELSE IF b \in 192..223 THEN 2
  ELSE IF b \in 224..239 THEN 3
  ELSE IF b \in 240..247 THEN 4
  ELSE 0

\* Whether the n - 1 escapes after the one at i are continuation bytes.
Continues(s, i, n) ==
  \A k \in 1..(n - 1) :
    HasEscape(s, i + 3 * k) /\ EscapedByte(s, i + 3 * k) \in 128..191

\* The code point of the n-byte UTF-8 sequence escaped at i.
CodePoint(s, i, n) ==
  LET b(k) == EscapedByte(s, i + 3 * k)
  IN IF n = 1 THEN b(0)
     ELSE IF n = 2 THEN (b(0) - 192) * 64 + (b(1) - 128)
     ELSE IF n = 3
       THEN (b(0) - 224) * 4096 + (b(1) - 128) * 64 + (b(2) - 128)
     ELSE (b(0) - 240) * 262144 + (b(1) - 128) * 4096
            + (b(2) - 128) * 64 + (b(3) - 128)

\* A code point UTF-8 may encode in n bytes: no overlong form, no
\* surrogate, nothing above U+10FFFF.
ValidCodePoint(cp, n) ==
  IF n = 1 THEN TRUE
  ELSE IF n = 2 THEN cp >= 128
  ELSE IF n = 3 THEN cp >= 2048 /\ cp \notin 55296..57343
  ELSE cp \in 65536..1114111

\* The UTF-16 code units of a code point.
CodeUnits(cp) ==
  IF cp < 65536 THEN <<cp>>
  ELSE <<55296 + ((cp - 65536) \div 1024), 56320 + ((cp - 65536) % 1024)>>

\* What decodeURIComponent gives when it throws URIError.
URIError == <<-1>>

\* decodeURIComponent(s) from position i on.
RECURSIVE DecodeFrom(_, _)
DecodeFrom(s, i) ==
  IF i > Len(s) THEN <<>>
  ELSE IF s[i] # 37
    THEN LET rest == DecodeFrom(s, i + 1)
         IN IF rest = URIError THEN URIError ELSE <<s[i]>> \o rest
  ELSE IF ~HasEscape(s, i) THEN URIError
  ELSE LET n == Utf8Length(EscapedByte(s, i))
       IN IF n = 0 \/ ~Continues(s, i, n) THEN URIError
          ELSE IF ~ValidCodePoint(CodePoint(s, i, n), n) THEN URIError
          ELSE LET rest == DecodeFrom(s, i + 3 * n)
               IN IF rest = URIError THEN URIError
                  ELSE CodeUnits(CodePoint(s, i, n)) \o rest

\* decodeURIComponent(s): the decoded string, or URIError.
decodeURIComponent(s) == DecodeFrom(s, 1)

\* The name a DELETE handler compares: the route parameter, which express
\* has percent-decoded once, percent-decoded again.
decodedParam(name) == decodeURIComponent(name)

\* POST /api/exercises, the checks made before the file is read.
postExercisesInvalid(name, section) ==
  IF Falsy(name) \/ trim(name) = <<>>
    THEN Fail(400, "Exercise name is required")
  ELSE IF Falsy(section) \/ trim(section) = <<>>
    THEN Fail(400, "Section name is required")
  ELSE Ok(<<>>)

\* POST /api/exercises, from the file read on.
postExercises(data, name, section) ==
  LET trimmedName == trimmedBodyName(name)
      trimmedSection == trimmedBodyName(section)
  IN IF ReadThrows(data) THEN Fail(500, "Failed to add exercise")
     ELSE LET sections == normalizeData(data)
              target == Get(sections, trimmedSection)
          IN IF ~Truthy(target) THEN Fail(404, "Section not found")
             \* an inherited property has no .some: TypeError, caught
             ELSE IF target.t = "inherited"
               THEN Fail(500, "Failed to add exercise")
             ELSE IF hasDuplicate(target.v, trimmedName)
               THEN Fail(400, "Exercise already exists in this section")
             ELSE Ok(Set(sections, trimmedSection,
                         pushExercise(target.v, trimmedName)))

\* DELETE /api/exercises/:section/:name, what is decided before the file
\* is read: a parameter that does not decode throws into the catch.
deleteExerciseThrows(section, name) ==
  IF decodedParam(section) = URIError \/ decodedParam(name) = URIError
    THEN Fail(500, "Failed to delete exercise")
    ELSE Ok(<<>>)

\* DELETE /api/exercises/:section/:name
deleteExercise(data, section, name) ==
  LET decodedSection == decodedParam(section)
      decodedName == decodedParam(name)
  IN IF decodedSection = URIError \/ decodedName = URIError
       THEN Fail(500, "Failed to delete exercise")
     ELSE IF ReadThrows(data) THEN Fail(500, "Failed to delete exercise")
     ELSE LET sections == normalizeData(data)
              target == Get(sections, decodedSection)
          IN IF ~Truthy(target) THEN Fail(404, "Section not found")
             \* an inherited property has no .filter: TypeError, caught
             ELSE IF target.t = "inherited"
               THEN Fail(500, "Failed to delete exercise")
             ELSE LET kept == withoutExercise(target.v, decodedName)
                  IN IF Len(kept) = Len(target.v)
                       THEN Fail(404, "Exercise not found")
                       ELSE Ok(Set(sections, decodedSection, kept))

\* POST /api/sections, the check made before the file is read.
postSectionsInvalid(name) ==
  IF Falsy(name) \/ trim(name) = <<>>
    THEN Fail(400, "Section name is required")
    ELSE Ok(<<>>)

\* POST /api/sections, from the file read on.
postSections(data, name) ==
  LET trimmedName == trimmedBodyName(name)
  IN IF ReadThrows(data) THEN Fail(500, "Failed to add section")
     ELSE LET sections == normalizeData(data)
          IN IF Truthy(Get(sections, trimmedName))
               THEN Fail(400, "Section already exists")
               ELSE Ok(Set(sections, trimmedName, <<>>))

\* DELETE /api/sections/:name, what is decided before the file is read.
deleteSectionThrows(name) ==
  IF decodedParam(name) = URIError
    THEN Fail(500, "Failed to delete section")
    ELSE Ok(<<>>)

\* DELETE /api/sections/:name
deleteSection(data, name) ==
  LET decodedName == decodedParam(name)
  IN IF decodedName = URIError THEN Fail(500, "Failed to delete section")
     ELSE IF ReadThrows(data) THEN Fail(500, "Failed to delete section")
     ELSE LET sections == normalizeData(data)
          IN IF ~Truthy(Get(sections, decodedName))
               THEN Fail(404, "Section not found")
             ELSE IF isLastSection(sections)
               THEN Fail(400, "Cannot delete the last section")
             ELSE Ok(Delete(sections, decodedName))

\* GET /api/sections
getSections(data) ==
  IF ReadThrows(data) THEN Fail(500, "Failed to read sections")
  ELSE Outcome(Response(200, "", ObjectKeys(normalizeData(data))),
               FALSE, <<>>)

\* GET /api/exercises
getExercises(data) ==
  IF ReadThrows(data) THEN Fail(500, "Failed to read exercises")
  ELSE Outcome(Response(200, "", normalizeData(data)), FALSE, <<>>)

\* initExercisesFile: the file after it ran.  Every exception of the try
\* block, the failed fs.access and the failed JSON.parse alike, lands in the
\* catch that writes the default document.
initExercisesFile(data) ==
  IF data.t = "absent" \/ ParseThrows(data)
    THEN Stringify(<< Property(General, <<>>) >>)
  ELSE IF data.t = "array"
    THEN Stringify(<< Property(General, data.v) >>)
  ELSE data

\* ------------------------------------------------------------------ inputs

Constructor == <<99, 111, 110, 115, 116, 114, 117, 99, 116, 111, 114>>

\* Section names POST /api/sections bodies carry: empty, the default
\* section, a plain name ("L"), two integer-like names whose numeric and
\* textual orders differ ("2", "10"), and an inherited property name.
SectionInputs ==
  { <<>>, General, <<76>>, <<50>>, <<49, 48>>, Constructor }

\* Section names POST /api/exercises bodies carry.
ExerciseSectionInputs ==
  { <<>>, General, <<76>>, Constructor }

\* Exercise names POST bodies carry: empty, two names that differ in case
\* only ("a", "A"), a padded name (CR "a" SP) and a name with a percent
\* sign ("5%").
ExerciseInputs ==
  { <<>>, <<97>>, <<65>>, <<13, 97, 32>>, <<53, 37>> }

\* Section names DELETE routes carry: stored names, an escaped name ("%4C"
\* for "L"), a name that does not decode ("5%") and an inherited property
\* name.
SectionParams ==
  { General, <<76>>, <<37, 52, 67>>, <<53, 37>>, Constructor }

\* Exercise names DELETE routes carry: stored names, an escaped name ("%61"
\* for "a") and a name that does not decode ("5%").
ExerciseParams ==
  { <<97>>, <<65>>, <<37, 54, 49>>, <<53, 37>> }

\* Names with white space around them: a blank name, a padded section name
\* (NBSP "L" SP), a padded exercise name (CR "a" SP) and the same two
\* escaped ("%C2%A0L%20", "%0Da%20").
PaddedSectionInputs == { <<32>>, <<160, 76, 32>> }
PaddedExerciseInputs == { <<13, 97, 32>> }
PaddedSectionParams ==
  { <<160, 76, 32>>, <<37, 67, 50, 37, 65, 48, 76, 37, 50, 48>> }
PaddedExerciseParams ==
  { <<13, 97, 32>>, <<37, 48, 68, 97, 37, 50, 48>> }

NoRequest == Request("none", <<>>, <<>>)
NoResponse == Response(0, "", <<>>)

\* ------------------------------------------------------------------- state

VARIABLES
  file,     \* the backing file EXERCISES_FILE
  phase,    \* "boot" until initExercisesFile has run, then "listening"
  req,      \* the request last answered
  res,      \* the response it got
  pre,      \* the backing file as the last handler to read it, or to
            \* answer without reading it, found it
  nops,     \* requests started so far
  clients,  \* per connection: the handler's position across its awaits
  writes,   \* number of texts request handlers have written to the file
  atomic,   \* history: no system call of fs.readFile or fs.writeFile has
            \* so far fallen between the open and the last read, or the
            \* open and the write, of another call
  serial    \* history: no request has so far arrived while the handler of
            \* another was between its start and its response

vars ==
  <<file, phase, req, res, pre, nops, clients, writes, atomic, serial>>

Clients == {1, 2}

IdleClient == Client(NoRequest, Unread, Fail(0, ""), "idle", 0, 0)

Init ==
  /\ file = Absent
  /\ phase = "boot"
  /\ req = NoRequest
  /\ res = NoResponse
  /\ pre = Absent
  /\ nops = 0
  /\ clients = [c \in Clients |-> IdleClient]
  /\ writes = 0
  /\ atomic = TRUE
  /\ serial = TRUE

\* What a handler decides before its first await: Ok to go on, or the
\* response it sends at once.
BeforeRead(r) ==
  IF r.op = "AddExercise" THEN postExercisesInvalid(r.name, r.section)
  ELSE IF r.op = "AddSection" THEN postSectionsInvalid(r.name)
  ELSE IF r.op = "DeleteExercise" THEN deleteExerciseThrows(r.section, r.name)
  ELSE IF r.op = "DeleteSection" THEN deleteSectionThrows(r.name)
  ELSE Ok(<<>>)

\* The handler from its fs.readFile on, given what the read returned.
AfterRead(r, data) ==
  IF r.op = "AddExercise" THEN postExercises(data, r.name, r.section)
  ELSE IF r.op = "DeleteExercise" THEN deleteExercise(data, r.section, r.name)
  ELSE IF r.op = "AddSection" THEN postSections(data, r.name)
  ELSE IF r.op = "DeleteSection" THEN deleteSection(data, r.name)
  ELSE IF r.op = "ListSections" THEN getSections(data)
  ELSE getExercises(data)

\* ------------------------------------------------------------------- steps
\* The handlers run on one thread: a handler runs from one await to the next
\* in one step.  The system calls of fs.readFile and fs.writeFile run off
\* that thread, each a step of its own, and nothing orders the steps of the
\* handlers of different requests.

\* Whether the handler of a request other than c's has started and not yet
\* answered.
InFlightElsewhere(c) ==
  \E d \in Clients \ {c} : clients[d].pc \notin {"idle", "done"}

\* Whether a call of fs.readFile or fs.writeFile other than c's has made
\* its first system call and has one that touches the file still to make:
\* a read between its open and its last read, a write between its open and
\* its write.
CallElsewhere(c) ==
  \E d \in Clients \ {c} :
    clients[d].pc \in {"readopen", "sized", "more", "opened"}

\* Whether c is the first connection with no request in flight; connections
\* are interchangeable and a request takes the first free one.
FirstFree(c) ==
  /\ clients[c].pc \in {"idle", "done"}
  /\ \A d \in Clients : d < c => clients[d].pc \notin {"idle", "done"}

\* The handler of request r is entered and runs up to its fs.readFile; a
\* request that fails before it is answered at once.
Receive(c, r) ==
  /\ phase = "listening"
  /\ FirstFree(c)
  /\ IF BeforeRead(r).res.status # 200
       THEN /\ clients' = [clients EXCEPT ![c] =
                 Client(r, Unread, BeforeRead(r), "done", 0, 0)]
            /\ req' = r
            /\ res' = BeforeRead(r).res
            /\ pre' = file
       ELSE /\ clients' = [clients EXCEPT ![c] =
                 Client(r, Unread, Ok(<<>>), "reading", 0, 0)]
            /\ UNCHANGED <<req, res, pre>>
  /\ nops' = nops + 1
  /\ serial' = (serial /\ ~InFlightElsewhere(c))
  /\ UNCHANGED <<file, phase, writes, atomic>>

\* The bytes after the text of the object in a file that holds one.
Rest(f) == IF f.t = "torn" THEN f.rest ELSE <<>>

\* The number of bytes of a file the server has written.
Size(f) ==
  IF f.t \in {"object", "torn"} THEN TextLength(f.members) + Len(Rest(f))
  ELSE 0

\* Its bytes.
Bytes(f) ==
  IF f.t \in {"object", "torn"} THEN Text(f.members) \o Rest(f) ELSE <<>>

\* The first n bytes of file f, n at most its size: short of the text of
\* its object they are not JSON.
Prefix(f, n) ==
  IF f.t \notin {"object", "torn"} THEN f
  ELSE IF n < TextLength(f.members) THEN Invalid
  ELSE IF n = TextLength(f.members) THEN ObjectText(f.members)
  ELSE Torn(f.members, SubSeq(Rest(f), 1, n - TextLength(f.members)))

\* What was read with more bytes after it.
Extended(got, more) ==
  IF got.t \in {"object", "torn"} THEN Torn(got.members, Rest(got) \o more)
  ELSE got

Min(a, b) == IF a <= b THEN a ELSE b

\* fs.readFile opens the file.
OpenRead(c) ==
  /\ clients[c].pc = "reading"
  /\ clients' = [clients EXCEPT ![c] =
       Client(clients[c].req, Unread, clients[c].out, "readopen", 0, 0)]
  /\ atomic' = (atomic /\ ~CallElsewhere(c))
  /\ UNCHANGED <<file, phase, req, res, pre, nops, writes, serial>>

\* fs.readFile asks for the size of the file.
Stat(c) ==
  /\ clients[c].pc = "readopen"
  /\ clients' = [clients EXCEPT ![c] =
       Client(clients[c].req, Sized(Size(file)), clients[c].out, "sized",
              0, 0)]
  /\ atomic' = (atomic /\ ~CallElsewhere(c))
  /\ UNCHANGED <<file, phase, req, res, pre, nops, writes, serial>>

\* fs.readFile reads from where its last read ended.  When fstat gave a
\* size, one read asks for that many bytes and what it returns is the
\* result, fewer if the file is shorter by now.  When fstat gave 0, reads
\* go on until one returns nothing, and the result is all they returned.
Read(c) ==
  /\ clients[c].pc \in {"sized", "more"}
  /\ IF clients[c].pc = "sized"
       THEN /\ clients' = [clients EXCEPT ![c] =
                 IF clients[c].got.size > 0
                   THEN Client(clients[c].req,
                               Prefix(file, Min(clients[c].got.size,
                                                Size(file))),
                               clients[c].out, "read", writes, 0)
                 ELSE IF Size(file) = 0
                   THEN Client(clients[c].req, file, clients[c].out,
                               "read", writes, 0)
                 ELSE Client(clients[c].req, file, clients[c].out,
                             "more", writes, 0)]
            /\ pre' = file
       ELSE /\ clients' = [clients EXCEPT ![c] =
                 IF Size(file) <= Size(clients[c].got)
                   THEN Client(clients[c].req, clients[c].got,
                               clients[c].out, "read", clients[c].readAt, 0)
                 ELSE Client(clients[c].req,
                             Extended(clients[c].got,
                                      SubSeq(Bytes(file),
                                             Size(clients[c].got) + 1,
                                             Size(file))),
                             clients[c].out, "more", clients[c].readAt, 0)]
            /\ UNCHANGED pre
  /\ atomic' = (atomic /\ ~CallElsewhere(c))
  /\ UNCHANGED <<file, phase, req, res, nops, writes, serial>>

\* fs.readFile closes the file, which changes nothing, await fs.readFile
\* resumes and the handler runs on what was read, to its response or to its
\* fs.writeFile.
Resume(c) ==
  /\ clients[c].pc = "read"
  /\ LET out == AfterRead(clients[c].req, clients[c].got)
     IN IF out.write
          THEN /\ clients' = [clients EXCEPT ![c] =
                    Client(clients[c].req, Unread, out, "writing",
                           clients[c].readAt, 0)]
               /\ UNCHANGED <<req, res>>
          ELSE /\ clients' = [clients EXCEPT ![c] =
                    Client(clients[c].req, Unread, out, "done",
                           clients[c].readAt, 0)]
               /\ req' = clients[c].req
               /\ res' = out.res
  /\ UNCHANGED <<file, phase, pre, nops, writes, atomic, serial>>

\* fs.writeFile opens the file for writing, which empties it.
Open(c) ==
  /\ clients[c].pc = "writing"
  /\ file' = Empty
  /\ clients' = [clients EXCEPT ![c] =
       Client(clients[c].req, Unread, clients[c].out, "opened",
              clients[c].readAt, 0)]
  /\ atomic' = (atomic /\ ~CallElsewhere(c))
  /\ UNCHANGED <<phase, req, res, pre, nops, writes, serial>>

\* fs.writeFile writes the text of the handler's document from the start of
\* the file.  Bytes another call has written past the end of this text
\* stay.
Write(c) ==
  /\ clients[c].pc = "opened"
  /\ file' = IF Size(file) <= TextLength(clients[c].out.sections)
               THEN Stringify(clients[c].out.sections)
               ELSE Torn(clients[c].out.sections,
                         SubSeq(Bytes(file),
                                TextLength(clients[c].out.sections) + 1,
                                Size(file)))
  /\ writes' = writes + 1
  /\ clients' = [clients EXCEPT ![c] =
       Client(clients[c].req, Unread, clients[c].out, "written",
              clients[c].readAt, writes + 1)]
  /\ atomic' = (atomic /\ ~CallElsewhere(c))
  /\ UNCHANGED <<phase, req, res, pre, nops, serial>>

\* fs.writeFile closes the file, which changes nothing, await fs.writeFile
\* resumes and the handler sends its response.
Respond(c) ==
  /\ clients[c].pc = "written"
  /\ clients' = [clients EXCEPT ![c] =
       Client(clients[c].req, Unread, clients[c].out, "done",
              clients[c].readAt, clients[c].wroteAt)]
  /\ req' = clients[c].req
  /\ res' = clients[c].out.res
  /\ UNCHANGED <<file, phase, pre, nops, writes, atomic, serial>>

OpenFileForRead == \E c \in Clients : OpenRead(c)

StatFile == \E c \in Clients : Stat(c)

ReadFile == \E c \in Clients : Read(c)

ResumeRead == \E c \in Clients : Resume(c)

OpenFile == \E c \in Clients : Open(c)

WriteFile == \E c \in Clients : Write(c)

ResumeWrite == \E c \in Clients : Respond(c)

\* ------------------------------------- requests from an absent file (Spec)

\* initExercisesFile().then(() => app.listen(...))
Initialize ==
  /\ phase = "boot"
  /\ file' = initExercisesFile(file)
  /\ phase' = "listening"
  /\ req' = Request("Initialize", <<>>, <<>>)
  /\ res' = NoResponse
  /\ pre' = file
  /\ UNCHANGED <<nops, clients, writes, atomic, serial>>

\* A request arrives on connection c.
Arrive(c, r) == nops < MaxOps /\ Receive(c, r)

\* Every exercise name for the default section and every section name for
\* the exercise "a".
AddExercise ==
  \E c \in Clients, n \in ExerciseInputs, s \in ExerciseSectionInputs :
    /\ n = <<97>> \/ s = General
    /\ Arrive(c, Request("AddExercise", n, s))

DeleteExercise ==
  \E c \in Clients, n \in ExerciseParams, s \in SectionParams :
    /\ n = <<97>> \/ s = General
    /\ Arrive(c, Request("DeleteExercise", n, s))

AddSection ==
  \E c \in Clients, s \in SectionInputs :
    Arrive(c, Request("AddSection", s, <<>>))

DeleteSection ==
  \E c \in Clients, s \in SectionParams :
    Arrive(c, Request("DeleteSection", s, <<>>))

ListSections ==
  \E c \in Clients : Arrive(c, Request("ListSections", <<>>, <<>>))

ListExercisesBySection ==
  \E c \in Clients : Arrive(c, Request("ListExercises", <<>>, <<>>))

Next ==
  \/ Initialize
  \/ AddExercise
  \/ DeleteExercise
  \/ AddSection
  \/ DeleteSection
  \/ ListSections
  \/ ListExercisesBySection
  \/ OpenFileForRead
  \/ StatFile
  \/ ReadFile
  \/ ResumeRead
  \/ OpenFile
  \/ WriteFile
  \/ ResumeWrite

Spec == Init /\ [][Next]_vars

\* ------------------------------------- startup on any file (SpecBoot)

\* Longest legacy exercise list among the initial files.
MaxLegacyLen == 2

\* "a", "A", "b"
StoredNames == { <<97>>, <<65>>, <<98>> }

ExerciseLists ==
  UNION { [1..n -> {Exercise(x) : x \in StoredNames}] : n \in 0..MaxLegacyLen }

\* Files a server may find at startup: none, bytes that are not JSON, the
\* legacy array form, and the mapping form (also one written by hand, with
\* its keys in an order Object.keys would not give).
InitialFiles ==
  {Absent, Invalid}
    \cup { ArrayText(v) : v \in ExerciseLists }
    \cup { ObjectText(<< Property(k, v) >>) :
             k \in {General, <<76>>}, v \in ExerciseLists }
    \cup { ObjectText(<< Property(General, v), Property(<<50>>, <<>>) >>) :
             v \in ExerciseLists }

InitBoot ==
  /\ file \in InitialFiles
  /\ phase = "boot"
  /\ req = NoRequest
  /\ res = NoResponse
  /\ pre = file
  /\ nops = 0
  /\ clients = [c \in Clients |-> IdleClient]
  /\ writes = 0
  /\ atomic = TRUE
  /\ serial = TRUE

NextBoot ==
  \/ Initialize
  \/ ListSections
  \/ ListExercisesBySection
  \/ OpenFileForRead
  \/ StatFile
  \/ ReadFile
  \/ ResumeRead

SpecBoot == InitBoot /\ [][NextBoot]_vars

\* ------------------------- requests on a written document (SpecConc)

\* "General", "L"
ConcSectionInputs == { General, <<76>> }

\* "a", "A", "b"
ConcExerciseInputs == { <<97>>, <<65>>, <<98>> }

\* Exercises are added to and deleted from the two sections; sections are
\* added and deleted under their names and under "constructor".
ConcRequests ==
  { Request(op, n, s) : op \in {"AddExercise", "DeleteExercise"},
                        n \in ConcExerciseInputs, s \in ConcSectionInputs }
    \cup { Request(op, s, <<>>) :
             op \in {"AddSection", "DeleteSection"},
             s \in ConcSectionInputs \cup {Constructor} }
    \cup { Request("ListSections", <<>>, <<>>) }

\* Documents the server has written before the requests at hand arrive.
ConcInitialFiles ==
  { Stringify(<< Property(General, <<>>) >>),
    Stringify(<< Property(General, <<>>), Property(<<76>>, <<>>) >>) }

InitConc ==
  /\ file \in ConcInitialFiles
  /\ phase = "listening"
  /\ req = NoRequest
  /\ res = NoResponse
  /\ pre = file
  /\ nops = 0
  /\ clients = [c \in Clients |-> IdleClient]
  /\ writes = 0
  /\ atomic = TRUE
  /\ serial = TRUE

ArriveConc ==
  \E c \in Clients, r \in ConcRequests :
    nops < MaxConcOps /\ Receive(c, r)

NextConc ==
  \/ ArriveConc
  \/ OpenFileForRead
  \/ StatFile
  \/ ReadFile
  \/ ResumeRead
  \/ OpenFile
  \/ WriteFile
  \/ ResumeWrite

SpecConc == InitConc /\ [][NextConc]_vars

\* ----------------------------- one request on any document (SpecDocs)

\* Number of requests that arrive in one behaviour of SpecDocs.
MaxDocOps == 1

\* Files a server may find at startup: none; documents whose names are
\* trimmed ("a" in General, an empty "L"); a document and a legacy array
\* that hold names with white space around them (CR "a" SP, NBSP "L" SP),
\* which initExercisesFile keeps as they are.  The documents are laid out
\* as the server writes them.
DocFiles ==
  { Absent,
    ObjectText(<< Property(General, <<Exercise(<<97>>)>>),
                  Property(<<76>>, <<>>) >>),
    ObjectText(<< Property(General, <<Exercise(<<13, 97, 32>>)>>),
                  Property(<<160, 76, 32>>, <<>>) >>),
    ArrayText(<<Exercise(<<13, 97, 32>>), Exercise(<<97>>)>>) }

\* Every request of the inputs, with and without white space around the
\* names.
Requests ==
  { Request("AddExercise", n, s) :
      n \in ExerciseInputs \cup PaddedExerciseInputs,
      s \in ExerciseSectionInputs \cup PaddedSectionInputs }
    \cup { Request("DeleteExercise", n, s) :
             n \in ExerciseParams \cup PaddedExerciseParams,
             s \in SectionParams \cup PaddedSectionParams }
    \cup { Request("AddSection", s, <<>>) :
             s \in SectionInputs \cup PaddedSectionInputs }
    \cup { Request("DeleteSection", s, <<>>) :
             s \in SectionParams \cup PaddedSectionParams }
    \cup { Request("ListSections", <<>>, <<>>),
           Request("ListExercises", <<>>, <<>>) }

InitDocs ==
  /\ file \in DocFiles
  /\ phase = "boot"
  /\ req = NoRequest
  /\ res = NoResponse
  /\ pre = file
  /\ nops = 0
  /\ clients = [c \in Clients |-> IdleClient]
  /\ writes = 0
  /\ atomic = TRUE
  /\ serial = TRUE

ArriveDocs ==
  \E c \in Clients, r \in Requests :
    nops < MaxDocOps /\ Receive(c, r)

NextDocs ==
  \/ Initialize
  \/ ArriveDocs
  \/ OpenFileForRead
  \/ StatFile
  \/ ReadFile
  \/ ResumeRead
  \/ OpenFile
  \/ WriteFile
  \/ ResumeWrite

SpecDocs == InitDocs /\ [][NextDocs]_vars

\* ------------------------------------------------------ reading the state

\* What the handler of request r decides when it finds data in the file.
Handle(r, data) ==
  IF BeforeRead(r).res.status # 200 THEN BeforeRead(r) ELSE AfterRead(r, data)

\* Requests have so far arrived one at a time and none is in flight: req is
\* the last of them, res its response, pre the file as it found it and file
\* the file as it left it.
OneAtATime ==
  /\ serial
  /\ \A c \in Clients : clients[c].pc \in {"idle", "done"}

\* The document a file holds, as every read path sees it.
Doc(f) == normalizeData(f)

\* The exercises of section k of document d (k an own key of d).
ExercisesOf(d, k) == d[OwnIndex(d, k)].value

SameIgnoringCase(a, b) == toLowerCase(a) = toLowerCase(b)

Mutating == {"AddExercise", "DeleteExercise", "AddSection", "DeleteSection"}

Padded(n) == n # trim(n)

\* Whether document d has section section and an exercise name in it.
HoldsExercise(d, section, name) ==
  /\ HasOwn(d, section)
  /\ \E i \in 1..Len(ExercisesOf(d, section)) :
       ExercisesOf(d, section)[i].name = name

\* list with its i-th entry taken out.
RemoveAt(list, i) == SubSeq(list, 1, i - 1) \o SubSeq(list, i + 1, Len(list))

\* --------------------------------------------------------------------- C1

\* C1: from Initialize on an absent file, after any sequence of requests run
\* one at a time, the persisted document has at least one section.
C1_AtLeastOneSection ==
  (OneAtATime /\ phase = "listening") =>
    file.t = "object" /\ Len(Doc(file)) >= 1

\* A DeleteSection of the only section was refused.
C1_Witness ==
  /\ OneAtATime
  /\ req.op = "DeleteSection"
  /\ res.error = "Cannot delete the last section"
  /\ Len(Doc(file)) = 1

\* --------------------------------------------------------------------- C2

\* C2: after requests run one at a time, no section of the persisted
\* document holds two exercises whose names are equal when letter case is
\* ignored.
C2_NoDuplicateIgnoringCase ==
  (OneAtATime /\ phase = "listening") =>
    \A s \in 1..Len(Doc(file)) :
      LET list == Doc(file)[s].value
      IN \A i, j \in 1..Len(list) :
           SameIgnoringCase(list[i].name, list[j].name) => i = j

\* An AddExercise whose name differs only in case from a stored one was
\* refused.
C2_Witness ==
  /\ OneAtATime
  /\ req.op = "AddExercise"
  /\ res.error = "Exercise already exists in this section"
  /\ HasOwn(Doc(file), trim(req.section))
  /\ \E i \in 1..Len(ExercisesOf(Doc(file), trim(req.section))) :
       LET stored == ExercisesOf(Doc(file), trim(req.section))[i].name
       IN stored # trim(req.name) /\ SameIgnoringCase(stored, trim(req.name))

\* --------------------------------------------------------------------- C3

\* C3: AddExercise(name, section) answers 400 when the trimmed name or
\* section is empty, else 404 when the document has no section of that
\* trimmed name, else 400 when the section holds the name ignoring case, the
\* document staying unchanged in all three cases; else it succeeds and
\* appends {name: trimmedName} as the last entry of that section only.
C3_AddExerciseContract ==
  (OneAtATime /\ req.op = "AddExercise") =>
    LET name == trim(req.name)
        section == trim(req.section)
        doc == Doc(pre)
    IN IF name = <<>> \/ section = <<>>
         THEN res.status = 400 /\ file = pre
       ELSE IF ~HasOwn(doc, section)
         THEN res.status = 404 /\ file = pre
       ELSE IF \E i \in 1..Len(ExercisesOf(doc, section)) :
                 SameIgnoringCase(ExercisesOf(doc, section)[i].name, name)
         THEN res.status = 400 /\ file = pre
       ELSE /\ res.status = 200
            /\ Doc(file) =
                 [doc EXCEPT ![OwnIndex(doc, section)].value =
                    Append(@, Exercise(name))]

\* --------------------------------------------------------------------- C4

\* C4: DeleteExercise(section, name) succeeds only when the section exists
\* and holds an exercise of exactly that name; a name differing only in case
\* answers 404 and changes nothing.  On success exactly that entry is
\* removed, the other entries keep their order, the other sections are
\* unchanged and the section stays, even when empty.
C4_DeleteExerciseExact ==
  (OneAtATime /\ req.op = "DeleteExercise") =>
    LET doc == Doc(pre)
        found == /\ HasOwn(doc, req.section)
                 /\ \E i \in 1..Len(ExercisesOf(doc, req.section)) :
                      ExercisesOf(doc, req.section)[i].name = req.name
    IN /\ res.status = 200 <=> found
       /\ res.status # 200 => file = pre
       /\ ( /\ HasOwn(doc, req.section)
            /\ ~found
            /\ \E i \in 1..Len(ExercisesOf(doc, req.section)) :
                 SameIgnoringCase(ExercisesOf(doc, req.section)[i].name,
                                  req.name) )
          => res.status = 404
       /\ found =>
            \E i \in 1..Len(ExercisesOf(doc, req.section)) :
              /\ ExercisesOf(doc, req.section)[i].name = req.name
              /\ Doc(file) =
                   [doc EXCEPT ![OwnIndex(doc, req.section)].value =
                      RemoveAt(@, i)]

\* --------------------------------------------------------------------- C5

\* C5: DeleteSection(name) answers 404 when no section has exactly that
\* name, and the last-section error when the document has one section, the
\* document staying unchanged; otherwise it succeeds and removes only that
\* section, whatever its name.
C5_DeleteSectionContract ==
  (OneAtATime /\ req.op = "DeleteSection") =>
    LET doc == Doc(pre)
    IN IF ~HasOwn(doc, req.name)
         THEN res.status = 404 /\ file = pre
       ELSE IF Len(doc) = 1
         THEN /\ res.error = "Cannot delete the last section"
              /\ file = pre
       ELSE /\ res.status = 200
            /\ Doc(file) = RemoveAt(doc, OwnIndex(doc, req.name))

\* --------------------------------------------------------------------- C6

\* C6: for a non-blank name, AddSection(name) answers Conflict exactly when
\* a section of the trimmed name exists; otherwise it creates the section,
\* empty, after all existing sections, so that the section names are listed
\* in the order in which they were added.
C6_AddSectionAppends ==
  (OneAtATime /\ req.op = "AddSection" /\ trim(req.name) # <<>>) =>
    LET name == trim(req.name)
        doc == Doc(pre)
    IN IF HasOwn(doc, name)
         THEN res.error = "Section already exists" /\ file = pre
         ELSE /\ res.status = 200
              /\ Doc(file) = Append(doc, Property(name, <<>>))
              /\ ObjectKeys(Doc(file)) = Append(ObjectKeys(doc), name)

\* --------------------------------------------------------------------- C7

\* The request r with its names trimmed.
TrimmedRequest(r) ==
  Request(r.op, trim(r.name), trim(r.section))

\* Whether request r, run alone on file f, answers a and leaves file g.
IsOutcomeOf(r, f, a, g) ==
  LET out == Handle(r, f)
  IN /\ a = out.res
     /\ g = IF out.write THEN Stringify(out.sections) ELSE f

\* The names of document d that have white space around them: section
\* names, and exercise names with their section.
PaddedNamesIn(d) ==
  { <<d[s].key>> : s \in {t \in 1..Len(d) : Padded(d[t].key)} }
    \cup UNION { { <<d[s].key, d[s].value[i].name>> :
                     i \in {j \in 1..Len(d[s].value) :
                              Padded(d[s].value[j].name)} } :
                 s \in 1..Len(d) }

\* C7 as stated: on every document, every mutating operation gives, for a
\* padded name, the outcome and the document it gives for the trimmed name,
\* and no persisted name is padded.
C7_AllOperationsTrim ==
  OneAtATime =>
    /\ req.op \in Mutating =>
         IsOutcomeOf(TrimmedRequest(req), pre, res, file)
    /\ phase = "listening" => PaddedNamesIn(Doc(file)) = {}

\* C7 amended: on every document, AddExercise and AddSection trim their
\* names (a padded name gives the outcome and the document of the trimmed
\* name).  DeleteExercise and DeleteSection percent-decode the name and do
\* not trim it: with a padded name they succeed only when the document holds
\* that padded name, and otherwise change nothing.  No operation adds a
\* padded name: one is in the document after an operation only if it was
\* there before.
C7_AddOperationsTrim ==
  OneAtATime =>
    /\ req.op \in {"AddExercise", "AddSection"} =>
         IsOutcomeOf(TrimmedRequest(req), pre, res, file)
    /\ ( /\ req.op = "DeleteExercise"
         /\ \/ Padded(decodedParam(req.name))
            \/ Padded(decodedParam(req.section)) )
       => /\ res.status = 200 =>
               HoldsExercise(Doc(pre), decodedParam(req.section),
                             decodedParam(req.name))
          /\ res.status # 200 => file = pre
    /\ (req.op = "DeleteSection" /\ Padded(decodedParam(req.name)))
       => /\ res.status = 200 => HasOwn(Doc(pre), decodedParam(req.name))
          /\ res.status # 200 => file = pre
    /\ (req.op \in Mutating /\ res.status = 200)
       => PaddedNamesIn(Doc(file)) \subseteq PaddedNamesIn(Doc(pre))

\* An exercise given with a padded name was stored under the trimmed name,
\* in a document that holds a padded name.
C7_Witness ==
  /\ OneAtATime
  /\ req.op = "AddExercise"
  /\ Padded(req.name)
  /\ res.status = 200
  /\ PaddedNamesIn(Doc(pre)) # {}
  /\ HasOwn(Doc(file), trim(req.section))
  /\ LET list == ExercisesOf(Doc(file), trim(req.section))
     IN list # <<>> /\ list[Len(list)].name = trim(req.name)

\* --------------------------------------------------------------------- C8

\* C8: Initialize writes the default document only when the file does not
\* exist; a mapping-form file is left unchanged, a legacy array is rewritten
\* as {"General": array}, and a file that is not valid JSON makes startup
\* fail with the file left as it was.
C8_InitializeKeepsExistingFile ==
  req.op = "Initialize" =>
    IF pre.t = "absent"
      THEN file = Stringify(<< Property(General, <<>>) >>)
    ELSE IF pre.t = "object" THEN file = pre
    ELSE IF pre.t = "array"
      THEN file = Stringify(<< Property(General, pre.v) >>)
    ELSE file = pre /\ phase # "listening"

\* --------------------------------------------------------------------- C9

\* Clients p and q have both answered 200 to AddExercise requests for the
\* same section and for names that differ even ignoring case; both read the
\* file before either wrote it and read the same content (no text was
\* written between the two reads), q's text was written after p's and
\* nothing was written since.  The two may have answered in either order.
LostUpdateRun(p, q) ==
  /\ p # q
  /\ clients[p].pc = "done" /\ clients[q].pc = "done"
  /\ clients[p].req.op = "AddExercise" /\ clients[q].req.op = "AddExercise"
  /\ clients[p].out.res.status = 200 /\ clients[q].out.res.status = 200
  /\ trim(clients[p].req.section) = trim(clients[q].req.section)
  /\ ~SameIgnoringCase(trim(clients[p].req.name), trim(clients[q].req.name))
  /\ clients[p].readAt = clients[q].readAt
  /\ clients[q].readAt < clients[p].wroteAt
  /\ clients[p].wroteAt < clients[q].wroteAt
  /\ writes = clients[q].wroteAt

\* C9: with no lock around read-modify-write, two AddExercise requests for
\* different names in one section whose reads both precede both writes both
\* report success, and the file, when each write ran alone from its open to
\* its write, is a document; whenever it is one, it holds the exercise
\* written last and not the one written first: the earlier update is lost.
C9_LostUpdate ==
  \A p, q \in Clients :
    LostUpdateRun(p, q) =>
      /\ atomic => file.t = "object"
      /\ file.t = "object" =>
           /\ HoldsExercise(Doc(file), trim(clients[q].req.section),
                            trim(clients[q].req.name))
           /\ ~HoldsExercise(Doc(file), trim(clients[p].req.section),
                             trim(clients[p].req.name))

\* Both requests have reported success and one exercise is missing.
C9_Witness ==
  \E p, q \in Clients :
    /\ LostUpdateRun(p, q)
    /\ atomic
    /\ file.t = "object"
    /\ clients[p].out.res.body # clients[q].out.res.body
    /\ ~HoldsExercise(Doc(file), trim(clients[p].req.section),
                      trim(clients[p].req.name))

\* -------------------------------------------------------------------- C10

WellFormed(d) ==
  /\ Len(d) >= 1
  /\ \A s \in 1..Len(d) :
       \A i, j \in 1..Len(d[s].value) :
         SameIgnoringCase(d[s].value[i].name, d[s].value[j].name) => i = j

\* C10: however the steps of concurrent requests interleave, every document
\* written to the file has at least one section and no section with two
\* exercises equal ignoring case: every document a handler passes to
\* fs.writeFile, every document a handler has read and the file whenever it
\* is a document are such; and when each read and each write has run alone
\* from its open to its last read or its write, the file is a document
\* whenever no write has it open and every read returns a document.
C10_WrittenDocumentsWellFormed ==
  /\ (atomic /\ \A c \in Clients : clients[c].pc # "opened")
       => file.t = "object"
  /\ file.t = "object" => WellFormed(Doc(file))
  /\ \A c \in Clients :
       /\ clients[c].pc \in {"writing", "opened", "written"}
            => WellFormed(clients[c].out.sections)
       /\ (clients[c].pc = "read" /\ ~ReadThrows(clients[c].got))
            => WellFormed(Doc(clients[c].got))
       /\ (clients[c].pc = "read" /\ atomic) => clients[c].got.t = "object"

\* Two DeleteSection requests for different sections read the same document,
\* both succeeded, and one section is left.
C10_Witness ==
  \E p, q \in Clients :
    /\ p # q
    /\ clients[p].pc = "done" /\ clients[q].pc = "done"
    /\ clients[p].req.op = "DeleteSection"
    /\ clients[q].req.op = "DeleteSection"
    /\ clients[p].req.name # clients[q].req.name
    /\ clients[p].out.res.status = 200 /\ clients[q].out.res.status = 200
    /\ clients[p].readAt < clients[q].wroteAt
    /\ clients[q].readAt < clients[p].wroteAt
    /\ atomic
    /\ file.t = "object"
    /\ Len(Doc(file)) = 1

====
